---- MODULE Spec2Model ----
(***************************************************************************)
(* Model of snippets/python-invitations/invitations.py: get_valid_dates,   *)
(* organize_event and construct, run on one group of attendees.            *)
(*                                                                         *)
(* A date text 'YYYY-MM-DD' is the tuple <<Y, M, D>> of its three fields.  *)
(* A datetime is the record [year, month, day] strptime builds from a text *)
(* that names a calendar day; strptime raises ValueError for any other     *)
(* text.  valid_date_mapping is a dict, which iterates in insertion order: *)
(* it is the sequence of its items [date, emails] in insertion order.      *)
(***************************************************************************)
EXTENDS Integers, Sequences, FiniteSets, TLC

\* Bounds of the model: attendees in the group, and date entries in the
\* whole group (summed over the attendees' availableDates).
MaxAttendees == 2
MaxEntries == 5

\* The date texts the attendees' availableDates are drawn from: three
\* consecutive days across the leap day, and a text that names no day.
DateTexts == { <<2024, 2, 28>>, <<2024, 2, 29>>, <<2024, 3, 1>>, <<2024, 13, 40>> }

\* The email of the attendee at each input position.
Emails == << "a@hs.com", "b@hs.com", "c@hs.com", "d@hs.com" >>

\* The group labels construct is called with.
Countries == { "Ireland", "Spain" }

\* Python's None, as the value of ret that is no datetime.
None == [year |-> 0, month |-> 0, day |-> 0]

Range(s) == { s[i] : i \in 1..Len(s) }

----------------------------------------------------------------------------
\* datetime

IsLeap(y) == (y % 4 = 0) /\ ((y % 100 # 0) \/ (y % 400 = 0))

DaysInMonth(y, m) ==
    IF m = 2 THEN (IF IsLeap(y) THEN 29 ELSE 28)
    ELSE IF m \in {4, 6, 9, 11} THEN 30 ELSE 31

\* strptime(d, '%Y-%m-%d') succeeds
IsCalendarDate(t) ==
    /\ t[1] \in 1..9999
    /\ t[2] \in 1..12
    /\ t[3] \in 1..DaysInMonth(t[1], t[2])

\* datetime.datetime.strptime(d, '%Y-%m-%d'), for a text it accepts
strptime(t) == [year |-> t[1], month |-> t[2], day |-> t[3]]

\* event[0].strftime('%Y-%m-%d')
strftime(d) == << d.year, d.month, d.day >>

\* date + datetime.timedelta(days=1)
NextDay(d) ==
    IF d.day < DaysInMonth(d.year, d.month)
    THEN [d EXCEPT !.day = d.day + 1]
    ELSE IF d.month < 12
         THEN [year |-> d.year, month |-> d.month + 1, day |-> 1]
         ELSE [year |-> d.year + 1, month |-> 1, day |-> 1]

\* datetime's order: a < b
Before(a, b) ==
    \/ a.year < b.year
    \/ a.year = b.year /\ a.month < b.month
    \/ a.year = b.year /\ a.month = b.month /\ a.day < b.day

----------------------------------------------------------------------------
\* get_valid_dates

RECURSIVE Insert(_, _)
Insert(s, x) ==
    IF s = << >> THEN << x >>
    ELSE IF Before(x, Head(s)) THEN << x >> \o s
    ELSE << Head(s) >> \o Insert(Tail(s), x)

RECURSIVE SortFrom(_, _)
SortFrom(sorted, rest) ==
    IF rest = << >> THEN sorted
    ELSE SortFrom(Insert(sorted, Head(rest)), Tail(rest))

\* A sort that was left out: the list stays in input order.
NoSort(dates) == dates

\* dates.sort()
Sort(dates) == SortFrom(<< >>, dates)

\* The consecutive-day test left out: every date but the last is kept.
AlwaysConsecutive(date, dates) == TRUE

\* next_date = date + timedelta(days=1); next_date in dates
HasConsecutive(date, dates) == NextDay(date) \in Range(dates)

\* dates[:-1]
AllButLast(dates) == SubSeq(dates, 1, Len(dates) - 1)

\* Malformed entries skipped instead of raising.
GetValidDatesSkipMalformed(available_dates) ==
    LET wellFormed(t) == IsCalendarDate(t)
        texts == SelectSeq(available_dates, wellFormed)
        dates == Sort([i \in 1..Len(texts) |-> strptime(texts[i])])
        keep(d) == HasConsecutive(d, dates)
    IN  [raised |-> FALSE, value |-> SelectSeq(AllButLast(dates), keep)]

\* get_valid_dates(available_dates): raised when strptime raises ValueError,
\* else the list valid_dates it returns.
GetValidDates(available_dates) ==
    IF \E i \in 1..Len(available_dates) : ~IsCalendarDate(available_dates[i])
    THEN [raised |-> TRUE, value |-> << >>]
    ELSE LET dates == Sort([i \in 1..Len(available_dates) |->
                               strptime(available_dates[i])])
             keep(d) == HasConsecutive(d, dates)
         IN  [raised |-> FALSE, value |-> SelectSeq(AllButLast(dates), keep)]

----------------------------------------------------------------------------
\* organize_event

\* date in valid_date_mapping
HasKey(mapping, date) == \E i \in 1..Len(mapping) : mapping[i].date = date

\* valid_date_mapping[date], for a key of the mapping
Lookup(mapping, date) ==
    mapping[CHOOSE i \in 1..Len(mapping) : mapping[i].date = date].emails

\* The body of the inner loop: append the email under date, or create the entry.
AddEmail(mapping, date, email) ==
    IF HasKey(mapping, date)
    THEN [i \in 1..Len(mapping) |->
             IF mapping[i].date = date
             THEN [mapping[i] EXCEPT !.emails = Append(@, email)]
             ELSE mapping[i]]
    ELSE Append(mapping, [date |-> date, emails |-> << email >>])

\* for date in valid_dates: ...
RECURSIVE AddAttendee(_, _, _)
AddAttendee(mapping, email, dates) ==
    IF dates = << >> THEN mapping
    ELSE AddAttendee(AddEmail(mapping, Head(dates), email), email, Tail(dates))

\* The scan with highest never updated: the last key wins.
RECURSIVE SelectScanLast(_, _, _, _)
SelectScanLast(mapping, i, highest, ret) ==
    IF i > Len(mapping) THEN ret
    ELSE IF Len(mapping[i].emails) > highest
         THEN SelectScanLast(mapping, i + 1, highest, mapping[i].date)
         ELSE SelectScanLast(mapping, i + 1, highest, ret)

\* for date in valid_date_mapping: if count > highest: highest, ret = count, date
RECURSIVE SelectScan(_, _, _, _)
SelectScan(mapping, i, highest, ret) ==
    IF i > Len(mapping) THEN ret
    ELSE IF Len(mapping[i].emails) > highest
         THEN SelectScan(mapping, i + 1, Len(mapping[i].emails), mapping[i].date)
         ELSE SelectScan(mapping, i + 1, highest, ret)

\* highest = 0; ret = None; the scan
SelectDate(mapping) == SelectScan(mapping, 1, 0, None)

\* The first loop of organize_event over a whole list of attendees.
RECURSIVE Aggregate(_, _)
Aggregate(mapping, atts) ==
    IF atts = << >> THEN [raised |-> FALSE, value |-> mapping]
    ELSE LET r == GetValidDates(Head(atts).availableDates)
         IN  IF r.raised THEN [raised |-> TRUE, value |-> mapping]
             ELSE Aggregate(AddAttendee(mapping, Head(atts).email, r.value),
                            Tail(atts))

\* organize_event(attendees): the exception it ends with, or the tuple it returns.
OrganizeEvent(atts) ==
    LET agg == Aggregate(<< >>, atts)
        ret == SelectDate(agg.value)
    IN  IF agg.raised THEN [error |-> "ValueError", value |-> << >>]
        ELSE IF ~HasKey(agg.value, ret) THEN [error |-> "KeyError", value |-> << >>]
        ELSE [error |-> "none", value |-> << ret, Lookup(agg.value, ret) >>]

----------------------------------------------------------------------------
\* construct

\* attendeeCount taken as the number of distinct attendees.
ConstructDistinct(ev, country) ==
    [attendeeCount |-> Cardinality(Range(ev[2])),
     attendees     |-> ev[2],
     name          |-> country,
     startDate     |-> strftime(ev[1])]

\* construct(event, country)
Construct(ev, country) ==
    [attendeeCount |-> Len(ev[2]),
     attendees     |-> ev[2],
     name          |-> country,
     startDate     |-> strftime(ev[1])]

----------------------------------------------------------------------------
\* The inputs: groups of at most MaxAttendees attendees holding at most
\* MaxEntries date entries in all.

RECURSIVE Sum(_, _)
Sum(lens, n) == IF n = 0 THEN 0 ELSE lens[n] + Sum(lens, n - 1)

\* The attendees whose availableDates have the lengths lens and, laid end to
\* end, are the list entries.
Group(lens, entries) ==
    [i \in 1..Len(lens) |->
        [email          |-> Emails[i],
         availableDates |-> SubSeq(entries, Sum(lens, i - 1) + 1, Sum(lens, i))]]

----------------------------------------------------------------------------
VARIABLES
    attendees,           \* the argument of organize_event
    pc,                  \* "aggregate", "select", "construct", "done", "raised"
    idx,                 \* attendees the first loop has gone through
    valid_dates,         \* what the last call of get_valid_dates returned
    valid_date_mapping,  \* the dict of organize_event
    event,               \* what organize_event returned; << >> before it returns
    error,               \* the exception raised: "none", "ValueError", "KeyError"
    record               \* what construct returned; << >> before it returns

vars == << attendees, pc, idx, valid_dates, valid_date_mapping, event, error, record >>

Init ==
    /\ \E n \in 0..MaxAttendees :
         \E lens \in [1..n -> 0..MaxEntries] :
             /\ Sum(lens, n) <= MaxEntries
             /\ \E entries \in [1..Sum(lens, n) -> DateTexts] :
                    attendees = Group(lens, entries)
    /\ pc = "aggregate"
    /\ idx = 0
    /\ valid_dates = << >>
    /\ valid_date_mapping = << >>
    /\ event = << >>
    /\ error = "none"
    /\ record = << >>

\* One iteration of `for attendee in attendees`
AggregateStep ==
    /\ pc = "aggregate"
    /\ idx < Len(attendees)
    /\ LET attendee == attendees[idx + 1]
           r == GetValidDates(attendee.availableDates)
       IN  /\ ~r.raised
           /\ valid_dates' = r.value
           /\ valid_date_mapping' =
                  AddAttendee(valid_date_mapping, attendee.email, r.value)
    /\ idx' = idx + 1
    /\ UNCHANGED << attendees, pc, event, error, record >>

\* An iteration in which get_valid_dates raises: organize_event is left
AggregateRaise ==
    /\ pc = "aggregate"
    /\ idx < Len(attendees)
    /\ GetValidDates(attendees[idx + 1].availableDates).raised
    /\ pc' = "raised"
    /\ error' = "ValueError"
    /\ UNCHANGED << attendees, idx, valid_dates, valid_date_mapping, event, record >>

\* The first loop ends
AggregateDone ==
    /\ pc = "aggregate"
    /\ idx = Len(attendees)
    /\ pc' = "select"
    /\ UNCHANGED << attendees, idx, valid_dates, valid_date_mapping, event, error, record >>

\* The second loop and the return, valid_date_mapping[ret] being there
SelectReturn ==
    /\ pc = "select"
    /\ LET ret == SelectDate(valid_date_mapping)
       IN  /\ HasKey(valid_date_mapping, ret)
           /\ event' = << ret, Lookup(valid_date_mapping, ret) >>
    /\ pc' = "construct"
    /\ UNCHANGED << attendees, idx, valid_dates, valid_date_mapping, error, record >>

\* The second loop and the return, valid_date_mapping[ret] raising KeyError
SelectRaise ==
    /\ pc = "select"
    /\ ~HasKey(valid_date_mapping, SelectDate(valid_date_mapping))
    /\ pc' = "raised"
    /\ error' = "KeyError"
    /\ UNCHANGED << attendees, idx, valid_dates, valid_date_mapping, event, record >>

\* construct(organize_event(...), country)
ConstructRecord ==
    /\ pc = "construct"
    /\ \E country \in Countries : record' = Construct(event, country)
    /\ pc' = "done"
    /\ UNCHANGED << attendees, idx, valid_dates, valid_date_mapping, event, error >>

Next ==
    \/ AggregateStep
    \/ AggregateRaise
    \/ AggregateDone
    \/ SelectReturn
    \/ SelectRaise
    \/ ConstructRecord

Spec == Init /\ [][Next]_vars

----------------------------------------------------------------------------
\* What the properties speak of

\* The calendar days an attendee lists.
AvailableDays(attendee) ==
    { strptime(t) : t \in { u \in Range(attendee.availableDates) : IsCalendarDate(u) } }

\* The attendee is available on day d and on the day after it.
Supports(attendee, d) ==
    /\ d \in AvailableDays(attendee)
    /\ NextDay(d) \in AvailableDays(attendee)

Malformed(attendee) ==
    \E t \in Range(attendee.availableDates) : ~IsCalendarDate(t)

AllDays == UNION { AvailableDays(attendees[i]) : i \in 1..Len(attendees) }

\* The candidate start dates of the group.
CandidateDays == { d \in AllDays : \E i \in 1..Len(attendees) : Supports(attendees[i], d) }

Keys == { valid_date_mapping[i].date : i \in 1..Len(valid_date_mapping) }

NoDuplicates(s) == \A i, j \in 1..Len(s) : s[i] = s[j] => i = j

\* organize_event has returned a tuple.
Returned == pc \in {"construct", "done"}

\* The first loop of organize_event has run to its end.
Aggregated == pc \in {"select", "construct", "done"} \/ error = "KeyError"

HighestCount ==
    CHOOSE n \in { Len(valid_date_mapping[i].emails) : i \in 1..Len(valid_date_mapping) } :
        \A i \in 1..Len(valid_date_mapping) : Len(valid_date_mapping[i].emails) <= n

\* The emails, in input order, of the attendees that support d.
SupportersInOrder(d) ==
    LET sup(a) == Supports(a, d)
        s == SelectSeq(attendees, sup)
    IN  [i \in 1..Len(s) |-> s[i].email]

Permuted(p) == [i \in 1..Len(attendees) |-> attendees[p[i]]]

----------------------------------------------------------------------------
\* C1: the start date organize_event returns is the earliest of the candidate
\* start dates that have the highest supporter count.
C1_EarliestOfTheBest ==
    Returned =>
        /\ Len(event[2]) = HighestCount
        /\ \A i \in 1..Len(valid_date_mapping) :
               Len(valid_date_mapping[i].emails) = HighestCount
                   => ~Before(valid_date_mapping[i].date, event[1])

\* C2: for a group none of whose attendees has a two-consecutive-day window
\* (the empty group too), organize_event ends without an exception.
C2_AbsentNotException ==
    ( /\ \A i \in 1..Len(attendees) : ~Malformed(attendees[i])
      /\ CandidateDays = {} )
    => error = "none"

\* C3: organize_event run on any permutation of the attendees returns the same
\* start date and the same number of attendees.
C3_OrderInvariant ==
    Returned =>
        \A p \in Permutations(1..Len(attendees)) :
            LET r == OrganizeEvent(Permuted(p))
            IN  /\ r.error = "none"
                /\ r.value[1] = event[1]
                /\ Len(r.value[2]) = Len(event[2])

\* C4: get_valid_dates returns a date d if and only if d and the day after d
\* are both among the available dates; nothing for an empty or one-date list.
C4_ValidIffConsecutive ==
    idx >= 1 =>
        LET attendee == attendees[idx]
        IN  /\ Range(valid_dates) = { d \in AvailableDays(attendee) : Supports(attendee, d) }
            /\ Len(attendee.availableDates) <= 1 => valid_dates = << >>

C4_Witness ==
    /\ idx >= 1
    /\ valid_dates # << >>
    /\ \E i, j \in 1..Len(attendees[idx].availableDates) :
           /\ i < j
           /\ Before(strptime(attendees[idx].availableDates[j]),
                     strptime(attendees[idx].availableDates[i]))

\* C5: get_valid_dates returns each valid start date at most once, and an
\* attendee's email is at most once in any date's list of the mapping.
C5_DuplicatesAsSet ==
    /\ NoDuplicates(valid_dates)
    /\ \A i \in 1..Len(valid_date_mapping) : NoDuplicates(valid_date_mapping[i].emails)

\* C6: when organize_event returns a date, no key of the mapping has a
\* strictly longer list than the one returned.
C6_MostSupporters ==
    Returned =>
        /\ event[2] = Lookup(valid_date_mapping, event[1])
        /\ \A i \in 1..Len(valid_date_mapping) :
               Len(valid_date_mapping[i].emails) <= Len(event[2])

C6_Witness ==
    /\ Returned
    /\ \E i \in 1..Len(valid_date_mapping) :
           Len(valid_date_mapping[i].emails) < Len(event[2])

\* C7: the start date returned has an attendee of the group that is available
\* on it and on the day after, and every email returned is such an attendee's.
C7_StartDateSupported ==
    Returned =>
        /\ \E i \in 1..Len(attendees) : Supports(attendees[i], event[1])
        /\ \A k \in 1..Len(event[2]) :
               \E i \in 1..Len(attendees) :
                   /\ attendees[i].email = event[2][k]
                   /\ Supports(attendees[i], event[1])

C7_Witness ==
    /\ Returned
    /\ Cardinality(Range(event[2])) = 2
    /\ Cardinality(Keys) = 2

\* C8: an attendee with an entry that is no calendar date makes get_valid_dates
\* fail before it computes a window of that attendee, and organize_event ends
\* with that failure and returns no selection.
C8_MalformedDatePropagates ==
    \A i \in 1..Len(attendees) :
        Malformed(attendees[i]) =>
            /\ idx < i
            /\ \A k \in 1..Len(valid_date_mapping) :
                   attendees[i].email \notin Range(valid_date_mapping[k].emails)
            /\ pc \in {"aggregate", "raised"}
            /\ pc = "raised" => error = "ValueError"
            /\ event = << >>

C8_Witness ==
    /\ pc = "raised"
    /\ error = "ValueError"
    /\ valid_date_mapping # << >>
    /\ Supports(attendees[idx + 1], strptime(<< 2024, 2, 28 >>))

\* C9: the record construct returns has attendeeCount = length of attendees.
C9_CountIsLength ==
    pc = "done" =>
        /\ record.attendeeCount = Len(record.attendees)
        /\ record.attendees = event[2]

C9_Witness ==
    /\ pc = "done"
    /\ record.attendeeCount >= 2

\* C10: after the first loop of organize_event, the keys of the mapping are the
\* dates some attendee supports, and the list under a date is the emails of
\* exactly the attendees that support it, in input order.
C10_MappingIsSupport ==
    Aggregated =>
        /\ Keys = CandidateDays
        /\ \A i \in 1..Len(valid_date_mapping) :
               valid_date_mapping[i].emails = SupportersInOrder(valid_date_mapping[i].date)

====
